---------------------------- MODULE Spec2Model ----------------------------
(***************************************************************************)
(* Order placement, order cancellation, payment webhook, cart and product *)
(* stock handling of the personal-care backend.                            *)
(*                                                                         *)
(* The database is modelled at read-committed isolation: every statement   *)
(* issued outside prisma.$transaction commits on its own; the statements   *)
(* of a $transaction callback read committed rows and their writes become  *)
(* visible together at commit, or not at all when the callback throws.     *)
(* Relative updates ({decrement: n}, {increment: n}) are applied to the    *)
(* row's committed value, never to the value the transaction read earlier. *)
(***************************************************************************)
EXTENDS Integers, Sequences, FiniteSets, TLC

(* ------------------------------ bounds -------------------------------- *)
MaxStock == 2
MaxQty == 2
MaxOrders == 2
MaxPrice == 3
MaxSessions == 2

(* ----------------------------- universes ------------------------------ *)
Users == {"u1", "u2"}
Products == {"p1", "p2"}
Tokens == {"t1"}
Reqs == {"r1", "r2"}
None == "none"
Null == 0 - 1

\* Address rows: id -> owning user.  "a3" is an id with no row.
AddressIds == {"a1", "a2", "a3"}
AddressTable == [a \in {"a1", "a2"} |-> IF a = "a1" THEN "u1" ELSE "u2"]

OrderStatusValues ==
    {"pending", "confirmed", "processing", "shipped", "delivered",
     "cancelled", "returned", "refunded"}
PaymentMethods == {"cod", "stripe"}
DeliveryOptions == {"normal", "express"}
CouponCodes == {None, "SAVE10"}
OrderNumbers == 1..MaxOrders

ExpressShipping == 180
NormalShipping == 120

VARIABLES
    stock,          \* Product.stock
    price,          \* Product.price
    discountPrice,  \* Product.discountPrice (Null when not set)
    pstatus,        \* Product.status
    carts,          \* Cart rows with their CartItem rows, by userId / guestCartId
    orders,         \* Order rows with their OrderItem rows, in creation order
    payments,       \* Payment rows, in creation order
    sessions,       \* Stripe checkout sessions (metadata orderId, userId)
    req,            \* in-flight placeOrder / cancelOrder requests
    resp            \* the last response sent: operation and outcome

vars == <<stock, price, discountPrice, pstatus, carts, orders, payments,
          sessions, req, resp>>

(* ------------------------------ helpers ------------------------------- *)
RECURSIVE SumOver(_, _)
SumOver(S, f) ==
    IF S = {} THEN 0
    ELSE LET x == CHOOSE y \in S : TRUE IN f[x] + SumOver(S \ {x}, f)

Min(a, b) == IF a < b THEN a ELSE b
Max(a, b) == IF a > b THEN a ELSE b

\* JavaScript  a || b  on numbers: null and 0 are falsy.
OrElse(a, b) == IF a # Null /\ a # 0 THEN a ELSE b
\* JavaScript  a ?? b : only null is replaced.
Coalesce(a, b) == IF a # Null THEN a ELSE b

\* The CartItem rows of a cart: the quantity by product, Null where the cart
\* has no row for the product.
NoProduct == "p0"
NoItems == [p \in Products |-> Null]
CartKeys == Users \cup Tokens
Lines(items) == {p \in Products : items[p] # Null}

Idle == [pc |-> "idle"]
Free(r) == req[r].pc = "idle"
\* A response: the operation and the error kind it failed with, "ok" when
\* it succeeded.
Response(op, error) == [op |-> op, error |-> error]

OrderIds == DOMAIN orders

(* ------------------------------- Init --------------------------------- *)
Init ==
    /\ stock \in [Products -> {MaxStock}]
    /\ price \in [Products -> {MaxPrice}]
    /\ discountPrice \in [Products -> {Null}]
    /\ pstatus = [p \in Products |-> "active"]
    /\ carts = [k \in CartKeys |-> [exists |-> FALSE, items |-> NoItems]]
    /\ orders = <<>>
    /\ payments = <<>>
    /\ sessions = {}
    /\ req = [r \in Reqs |-> Idle]
    /\ resp = Response(None, "ok")

(* ------------------------- CartService -------------------------------- *)
ResolveKey_PreferGuest(userId, guestCartId) ==
    IF guestCartId # None THEN guestCartId
    ELSE IF userId # None THEN userId
    ELSE None

\* resolveCart: the key of the cart the call works on: the user's cart when
\* a user id is given, else the guest cart of the token; None when neither
\* identity is supplied (BadRequestError).
ResolveKey(userId, guestCartId) ==
    IF userId # None THEN userId
    ELSE IF guestCartId # None THEN guestCartId
    ELSE None

\* resolveCart's find-or-create, as a new value of carts.
Resolved(k) == [carts EXCEPT ![k].exists = TRUE]

\* cartItem.findUnique({cartId_productId}) finds a row.
HasLine(k, p) == p \in Products /\ carts[k].items[p] # Null

\* The cart operations touch nothing but carts and the response.
CartFrame ==
    UNCHANGED <<stock, price, discountPrice, pstatus, orders, payments,
                sessions, req>>

GetCart(userId, guestCartId) ==
    LET k == ResolveKey(userId, guestCartId) IN
    /\ IF k = None
       THEN carts' = carts /\ resp' = Response("getCart", "InvalidIdentity")
       ELSE carts' = Resolved(k) /\ resp' = Response("getCart", "ok")
    /\ CartFrame

AddToCart_Reserve(userId, guestCartId, p, q) ==
    LET k == ResolveKey(userId, guestCartId) IN
    /\ p \in Products /\ pstatus[p] = "active" /\ stock[p] >= 1 /\ k # None
    /\ LET newQty == IF HasLine(k, p) THEN carts[k].items[p] + q ELSE q IN
       IF newQty > stock[p]
       THEN /\ carts' = Resolved(k) /\ stock' = stock
            /\ resp' = Response("addToCart", "InsufficientStock")
       ELSE /\ carts' = [Resolved(k) EXCEPT ![k].items[p] = newQty]
            /\ stock' = [stock EXCEPT ![p] = stock[p] - q]
            /\ resp' = Response("addToCart", "ok")
    /\ UNCHANGED <<price, discountPrice, pstatus, orders, payments,
                   sessions, req>>

AddToCart_CheckRequested(userId, guestCartId, p, q) ==
    LET k == ResolveKey(userId, guestCartId) IN
    /\ IF ~(p \in Products) \/ pstatus[p] # "active"
       THEN carts' = carts /\ resp' = Response("addToCart", "NotFound")
       ELSE IF stock[p] < 1
       THEN carts' = carts /\ resp' = Response("addToCart", "OutOfStock")
       ELSE IF k = None
       THEN carts' = carts /\ resp' = Response("addToCart", "InvalidIdentity")
       ELSE IF q > stock[p]
            THEN /\ carts' = Resolved(k)
                 /\ resp' = Response("addToCart", "InsufficientStock")
            ELSE /\ carts' = [Resolved(k) EXCEPT ![k].items[p] =
                                 IF HasLine(k, p) THEN carts[k].items[p] + q
                                 ELSE q]
                 /\ resp' = Response("addToCart", "ok")
    /\ CartFrame

AddToCart_Overwrite(userId, guestCartId, p, q) ==
    LET k == ResolveKey(userId, guestCartId) IN
    /\ IF ~(p \in Products) \/ pstatus[p] # "active"
       THEN carts' = carts /\ resp' = Response("addToCart", "NotFound")
       ELSE IF stock[p] < 1
       THEN carts' = carts /\ resp' = Response("addToCart", "OutOfStock")
       ELSE IF k = None
       THEN carts' = carts /\ resp' = Response("addToCart", "InvalidIdentity")
       ELSE IF q > stock[p]
            THEN /\ carts' = Resolved(k)
                 /\ resp' = Response("addToCart", "InsufficientStock")
            ELSE /\ carts' = [Resolved(k) EXCEPT ![k].items[p] = q]
                 /\ resp' = Response("addToCart", "ok")
    /\ CartFrame

AddToCart(userId, guestCartId, p, q) ==
    LET k == ResolveKey(userId, guestCartId) IN
    /\ IF ~(p \in Products) \/ pstatus[p] # "active"
       THEN carts' = carts /\ resp' = Response("addToCart", "NotFound")
       ELSE IF stock[p] < 1
       THEN carts' = carts /\ resp' = Response("addToCart", "OutOfStock")
       ELSE IF k = None
       THEN carts' = carts /\ resp' = Response("addToCart", "InvalidIdentity")
       ELSE IF HasLine(k, p)
       THEN LET newQty == carts[k].items[p] + q IN
            IF newQty > stock[p]
            THEN /\ carts' = Resolved(k)
                 /\ resp' = Response("addToCart", "InsufficientStock")
            ELSE /\ carts' = [Resolved(k) EXCEPT ![k].items[p] = newQty]
                 /\ resp' = Response("addToCart", "ok")
       ELSE IF q > stock[p]
            THEN /\ carts' = Resolved(k)
                 /\ resp' = Response("addToCart", "InsufficientStock")
            ELSE /\ carts' = [Resolved(k) EXCEPT ![k].items[p] = q]
                 /\ resp' = Response("addToCart", "ok")
    /\ CartFrame

UpdateQuantity_Add(userId, guestCartId, p, q) ==
    LET k == ResolveKey(userId, guestCartId) IN
    /\ IF k = None
       THEN /\ carts' = carts
            /\ resp' = Response("updateQuantity", "InvalidIdentity")
       ELSE IF ~HasLine(k, p)
       THEN /\ carts' = Resolved(k)
            /\ resp' = Response("updateQuantity", "NotFound")
       ELSE IF q > stock[p]
       THEN /\ carts' = Resolved(k)
            /\ resp' = Response("updateQuantity", "InsufficientStock")
       ELSE /\ carts' = [Resolved(k) EXCEPT
                           ![k].items[p] = carts[k].items[p] + q]
            /\ resp' = Response("updateQuantity", "ok")
    /\ CartFrame

UpdateQuantity(userId, guestCartId, p, q) ==
    LET k == ResolveKey(userId, guestCartId) IN
    /\ IF k = None
       THEN /\ carts' = carts
            /\ resp' = Response("updateQuantity", "InvalidIdentity")
       ELSE IF ~HasLine(k, p)
       THEN /\ carts' = Resolved(k)
            /\ resp' = Response("updateQuantity", "NotFound")
       ELSE IF q > stock[p]
       THEN /\ carts' = Resolved(k)
            /\ resp' = Response("updateQuantity", "InsufficientStock")
       ELSE /\ carts' = [Resolved(k) EXCEPT ![k].items[p] = q]
            /\ resp' = Response("updateQuantity", "ok")
    /\ CartFrame

RemoveFromCart_All(userId, guestCartId, p) ==
    LET k == ResolveKey(userId, guestCartId) IN
    /\ IF k = None
       THEN /\ carts' = carts
            /\ resp' = Response("removeFromCart", "InvalidIdentity")
       ELSE IF ~HasLine(k, p)
       THEN /\ carts' = Resolved(k)
            /\ resp' = Response("removeFromCart", "NotFound")
       ELSE /\ carts' = [Resolved(k) EXCEPT ![k].items = NoItems]
            /\ resp' = Response("removeFromCart", "ok")
    /\ CartFrame

RemoveFromCart(userId, guestCartId, p) ==
    LET k == ResolveKey(userId, guestCartId) IN
    /\ IF k = None
       THEN /\ carts' = carts
            /\ resp' = Response("removeFromCart", "InvalidIdentity")
       ELSE IF ~HasLine(k, p)
       THEN /\ carts' = Resolved(k)
            /\ resp' = Response("removeFromCart", "NotFound")
       ELSE /\ carts' = [Resolved(k) EXCEPT ![k].items[p] = Null]
            /\ resp' = Response("removeFromCart", "ok")
    /\ CartFrame

ClearCart(userId, guestCartId) ==
    LET k == ResolveKey(userId, guestCartId) IN
    /\ IF k = None
       THEN carts' = carts /\ resp' = Response("clearCart", "InvalidIdentity")
       ELSE /\ carts' = [Resolved(k) EXCEPT ![k].items = NoItems]
            /\ resp' = Response("clearCart", "ok")
    /\ CartFrame

MergeLine_Sum(userItems, guestItems, p) ==
    IF guestItems[p] = Null THEN userItems[p]
    ELSE IF pstatus[p] # "active" THEN userItems[p]
    ELSE IF Min(guestItems[p], stock[p]) < 1 THEN userItems[p]
    ELSE IF userItems[p] # Null
         THEN Min(userItems[p] + guestItems[p], stock[p])
         ELSE Min(guestItems[p], stock[p])

MergeLine_AnyStatus(userItems, guestItems, p) ==
    IF guestItems[p] = Null THEN userItems[p]
    ELSE IF Min(guestItems[p], stock[p]) < 1 THEN userItems[p]
    ELSE IF userItems[p] # Null
         THEN Min(Max(userItems[p], guestItems[p]), stock[p])
         ELSE Min(guestItems[p], stock[p])

\* One guest line folded into the user's lines, on the product row the
\* guest cart query loaded.
MergeLine(userItems, guestItems, p) ==
    IF guestItems[p] = Null THEN userItems[p]
    ELSE IF pstatus[p] # "active" THEN userItems[p]
    ELSE IF Min(guestItems[p], stock[p]) < 1 THEN userItems[p]
    ELSE IF userItems[p] # Null
         THEN Min(Max(userItems[p], guestItems[p]), stock[p])
         ELSE Min(guestItems[p], stock[p])

MergeGuestCart_DeleteEmpty(userId, guestCartId) ==
    /\ IF ~carts[guestCartId].exists
       THEN carts' = Resolved(userId)
       ELSE carts' =
              [Resolved(userId) EXCEPT
                 ![userId].items =
                     [p \in Products |->
                        MergeLine(carts[userId].items,
                                  carts[guestCartId].items, p)],
                 ![guestCartId] = [exists |-> FALSE, items |-> NoItems]]
    /\ resp' = Response("mergeGuestCart", "ok")
    /\ CartFrame

MergeGuestCart(userId, guestCartId) ==
    /\ IF ~carts[guestCartId].exists \/ Lines(carts[guestCartId].items) = {}
       THEN carts' = Resolved(userId)
       ELSE carts' =
              [Resolved(userId) EXCEPT
                 ![userId].items =
                     [p \in Products |->
                        MergeLine(carts[userId].items,
                                  carts[guestCartId].items, p)],
                 ![guestCartId] = [exists |-> FALSE, items |-> NoItems]]
    /\ resp' = Response("mergeGuestCart", "ok")
    /\ CartFrame

(* --------------- CartService calls, statement by statement ------------ *)
\* addToCart up to the check of the new quantity: product validation,
\* resolveCart and the read of the existing line.  The write comes later,
\* with the quantity computed here.
AddRead(r, userId, guestCartId, p, q) ==
    LET k == ResolveKey(userId, guestCartId) IN
    /\ Free(r)
    /\ IF ~(p \in Products) \/ pstatus[p] # "active"
       THEN /\ carts' = carts /\ req' = req
            /\ resp' = Response("addToCart", "NotFound")
       ELSE IF stock[p] < 1
       THEN /\ carts' = carts /\ req' = req
            /\ resp' = Response("addToCart", "OutOfStock")
       ELSE IF k = None
       THEN /\ carts' = carts /\ req' = req
            /\ resp' = Response("addToCart", "InvalidIdentity")
       ELSE IF (IF HasLine(k, p) THEN carts[k].items[p] + q ELSE q) > stock[p]
       THEN /\ carts' = Resolved(k) /\ req' = req
            /\ resp' = Response("addToCart", "InsufficientStock")
       ELSE /\ carts' = Resolved(k)
            /\ req' = [req EXCEPT ![r] =
                  [pc |-> "addWrite", key |-> k, product |-> p,
                   quantity |-> q, existing |-> carts[k].items[p]]]
            /\ resp' = resp
    /\ UNCHANGED <<stock, price, discountPrice, pstatus, orders, payments,
                   sessions>>

\* cartItem.update({quantity: newQty}) on the row read, or cartItem.create
\* when no row was read; the create fails on the key cartId_productId when
\* a row has appeared, the update when the row is gone.
AddWrite(r) ==
    /\ req[r].pc = "addWrite"
    /\ LET k == req[r].key
           p == req[r].product
           e == req[r].existing IN
       IF e # Null
       THEN IF ~HasLine(k, p)
            THEN /\ carts' = carts
                 /\ resp' = Response("addToCart", "NotFound")
            ELSE /\ carts' = [carts EXCEPT
                                ![k].items[p] = e + req[r].quantity]
                 /\ resp' = Response("addToCart", "ok")
       ELSE IF HasLine(k, p) \/ ~carts[k].exists
            THEN /\ carts' = carts
                 /\ resp' = Response("addToCart", "Conflict")
            ELSE /\ carts' = [carts EXCEPT ![k].items[p] = req[r].quantity]
                 /\ resp' = Response("addToCart", "ok")
    /\ req' = [req EXCEPT ![r] = Idle]
    /\ UNCHANGED <<stock, price, discountPrice, pstatus, orders, payments,
                   sessions>>

\* mergeGuestCart up to the load of the guest cart with its items and
\* their products' stock and status.
MergeLoad(r, userId, guestCartId) ==
    /\ Free(r)
    /\ IF ~carts[guestCartId].exists \/ Lines(carts[guestCartId].items) = {}
       THEN /\ carts' = Resolved(userId)
            /\ resp' = Response("mergeGuestCart", "ok")
            /\ req' = req
       ELSE /\ req' = [req EXCEPT ![r] =
                  [pc |-> "mergeTx", user |-> userId, token |-> guestCartId,
                   guestItems |-> carts[guestCartId].items,
                   stock |-> stock, status |-> pstatus]]
            /\ carts' = carts
            /\ resp' = resp
    /\ UNCHANGED <<stock, price, discountPrice, pstatus, orders, payments,
                   sessions>>

\* One loaded guest line folded into the user's lines as the transaction
\* finds them, on the product row loaded with the guest cart.
MergeLoaded(userItems, m, p) ==
    IF m.guestItems[p] = Null THEN userItems[p]
    ELSE IF m.status[p] # "active" THEN userItems[p]
    ELSE IF Min(m.guestItems[p], m.stock[p]) < 1 THEN userItems[p]
    ELSE IF userItems[p] # Null
         THEN Min(Max(userItems[p], m.guestItems[p]), m.stock[p])
         ELSE Min(m.guestItems[p], m.stock[p])

\* The user's cart is created if missing, on its own; then the transaction
\* merges the loaded lines, deletes every line the guest cart has by then
\* and the guest cart row.  Deleting a row that is gone fails the
\* transaction.
MergeCommit(r) ==
    /\ req[r].pc = "mergeTx"
    /\ LET u == req[r].user
           t == req[r].token IN
       IF ~carts[t].exists
       THEN /\ carts' = Resolved(u)
            /\ resp' = Response("mergeGuestCart", "NotFound")
       ELSE /\ carts' =
                 [Resolved(u) EXCEPT
                    ![u].items = [p \in Products |->
                                    MergeLoaded(carts[u].items, req[r], p)],
                    ![t] = [exists |-> FALSE, items |-> NoItems]]
            /\ resp' = Response("mergeGuestCart", "ok")
    /\ req' = [req EXCEPT ![r] = Idle]
    /\ UNCHANGED <<stock, price, discountPrice, pstatus, orders, payments,
                   sessions>>

\* The store aborts the merge transaction: its writes are rolled back, the
\* cart row created for the user before it stays.
MergeAbort(r) ==
    /\ req[r].pc = "mergeTx"
    /\ carts' = Resolved(req[r].user)
    /\ resp' = Response("mergeGuestCart", "Retryable")
    /\ req' = [req EXCEPT ![r] = Idle]
    /\ UNCHANGED <<stock, price, discountPrice, pstatus, orders, payments,
                   sessions>>

(* ------------------------- ProductService ----------------------------- *)
\* PATCH /api/products/:id/stock (admin); the body is validated stock >= 0.
UpdateStock(p, s) ==
    /\ stock' = [stock EXCEPT ![p] = s]
    /\ UNCHANGED <<price, discountPrice, pstatus, carts, orders, payments,
                   sessions, req, resp>>

UpdateProduct_Cascade(p, field, value) ==
    /\ price' = IF field = "price" THEN [price EXCEPT ![p] = value] ELSE price
    /\ discountPrice' = IF field = "discountPrice"
                        THEN [discountPrice EXCEPT ![p] = value]
                        ELSE discountPrice
    /\ pstatus' = IF field = "status" THEN [pstatus EXCEPT ![p] = value]
                  ELSE pstatus
    /\ stock' = IF field = "stock" THEN [stock EXCEPT ![p] = value] ELSE stock
    /\ orders' = [o \in OrderIds |->
                    IF field = "price" /\ p \in DOMAIN orders[o].items
                    THEN [orders[o] EXCEPT !.items[p].price = value]
                    ELSE orders[o]]
    /\ UNCHANGED <<carts, payments, sessions, req, resp>>

\* PUT /api/products/:id (admin) with one field of the update body set.
UpdateProduct(p, field, value) ==
    /\ price' = IF field = "price" THEN [price EXCEPT ![p] = value] ELSE price
    /\ discountPrice' = IF field = "discountPrice"
                        THEN [discountPrice EXCEPT ![p] = value]
                        ELSE discountPrice
    /\ pstatus' = IF field = "status" THEN [pstatus EXCEPT ![p] = value]
                  ELSE pstatus
    /\ stock' = IF field = "stock" THEN [stock EXCEPT ![p] = value] ELSE stock
    /\ UNCHANGED <<carts, orders, payments, sessions, req, resp>>

(* ------------------- OrderService.placeOrder -------------------------- *)
InFlightPlacements ==
    Cardinality({r \in Reqs : req[r].pc \in {"read", "created", "stocked"}})

ShippingAmount(deliveryOption) ==
    IF deliveryOption = "express" THEN ExpressShipping ELSE NormalShipping

\* The coupon branch is empty: discountAmount keeps its initial 0.
DiscountAmount(couponCode) == 0

\* The unit price the subtotal is computed from.
UnitPrice(pr, dp) == OrElse(dp, pr)

\* One OrderItem as created from a cart item and its product row.
OrderItemOf(q, pr, dp) ==
    [quantity |-> q, price |-> pr, discount |-> pr - OrElse(dp, pr)]

\* The stock check of the validation loop, on the rows the cart query read.
StockOk(items) == \A p \in Lines(items) : ~(stock[p] < items[p])

\* Steps 1-2: load the cart with its items and products, validate the stock
\* of every item against the rows just read, and add up the subtotal.
PlaceRead(r, userId, data) ==
    /\ Free(r)
    /\ Len(orders) + InFlightPlacements < MaxOrders
    /\ LET cart == carts[userId]
           ls == Lines(cart.items) IN
       IF ~cart.exists \/ ls = {}
       THEN /\ resp' = Response("placeOrder", "EmptyCart")
            /\ req' = req
       ELSE IF ~StockOk(cart.items)
       THEN /\ resp' = Response("placeOrder", "InsufficientStock")
            /\ req' = req
       ELSE /\ req' = [req EXCEPT ![r] =
                [pc |-> "read", user |-> userId, data |-> data,
                 items |-> [p \in ls |->
                     OrderItemOf(cart.items[p], price[p], discountPrice[p])],
                 subtotal |->
                     SumOver(ls, [p \in ls |->
                         UnitPrice(price[p], discountPrice[p])
                             * cart.items[p]])]]
            /\ resp' = resp
    /\ UNCHANGED <<stock, price, discountPrice, pstatus, carts, orders,
                   payments, sessions>>

\* The address lookup of step 6: findUnique by id.
FindAddress(userId, addressId) == addressId \in DOMAIN AddressTable

\* Order.orderNumber is unique: a row with the number exists.
NumberTaken_Never(n) == FALSE

NumberTaken(n) == \E o \in OrderIds : orders[o].orderNumber = n

\* The row tx.order.create is given.
NewOrder(userId, data, items, subtotal, n) ==
    LET shippingAmount == ShippingAmount(data.deliveryOption)
        discountAmount == DiscountAmount(data.couponCode)
        address == [id |-> data.addressId,
                    userId |-> AddressTable[data.addressId]] IN
    [orderNumber |-> n,
     userId |-> userId,
     status |-> "pending",
     totalAmount |-> subtotal,
     discountAmount |-> discountAmount,
     shippingAmount |-> shippingAmount,
     grandTotal |-> subtotal + shippingAmount - discountAmount,
     paymentMethod |-> data.paymentMethod,
     paymentStatus |-> "pending",
     shippingAddressId |-> data.addressId,
     shippingAddress |-> address,
     billingAddress |-> address,
     items |-> items]

\* Steps 3-7: totals, order number, address snapshot, tx.order.create.
PlaceCreate(r, n) ==
    /\ req[r].pc = "read"
    /\ LET u == req[r].user
           d == req[r].data IN
       IF ~FindAddress(u, d.addressId)
       THEN /\ resp' = Response("placeOrder", "NotFound")
            /\ req' = [req EXCEPT ![r] = Idle]
       ELSE IF NumberTaken(n)
       THEN /\ resp' = Response("placeOrder", "Conflict")
            /\ req' = [req EXCEPT ![r] = Idle]
       ELSE /\ req' = [req EXCEPT ![r] =
                [pc |-> "created", user |-> u, data |-> d,
                 order |-> NewOrder(u, d, req[r].items, req[r].subtotal, n),
                 dec |-> [p \in Products |-> 0]]]
            /\ resp' = resp
    /\ UNCHANGED <<stock, price, discountPrice, pstatus, carts, orders,
                   payments, sessions>>

PlaceStock_Direct(r) ==
    /\ req[r].pc = "created"
    /\ req' = [req EXCEPT ![r].pc = "stocked"]
    /\ stock' = [p \in Products |->
                    IF p \in DOMAIN req[r].order.items
                    THEN stock[p] - req[r].order.items[p].quantity
                    ELSE stock[p]]
    /\ UNCHANGED <<price, discountPrice, pstatus, carts, orders, payments,
                   sessions, resp>>

\* Step "Update Stock": one {decrement: quantity} per cart item, held by
\* the transaction until it commits.
PlaceStock(r) ==
    /\ req[r].pc = "created"
    /\ req' = [req EXCEPT ![r].pc = "stocked",
                          ![r].dec = [p \in Products |->
                              IF p \in DOMAIN req[r].order.items
                              THEN req[r].order.items[p].quantity ELSE 0]]
    /\ UNCHANGED <<stock, price, discountPrice, pstatus, carts, orders,
                   payments, sessions, resp>>

PlaceCommit_KeepCart(r) ==
    /\ req[r].pc = "stocked"
    /\ LET o == req[r].order IN
       IF NumberTaken(o.orderNumber)
       THEN /\ resp' = Response("placeOrder", "Conflict")
            /\ UNCHANGED <<stock, orders>>
       ELSE /\ orders' = Append(orders, o)
            /\ stock' = [p \in Products |-> stock[p] - req[r].dec[p]]
            /\ resp' = Response("placeOrder", "ok")
    /\ req' = [req EXCEPT ![r] = Idle]
    /\ UNCHANGED <<price, discountPrice, pstatus, carts, payments, sessions>>

\* Step "Clear Cart" and the commit of the transaction.
PlaceCommit(r) ==
    /\ req[r].pc = "stocked"
    /\ LET u == req[r].user
           o == req[r].order IN
       IF NumberTaken(o.orderNumber)
       THEN /\ resp' = Response("placeOrder", "Conflict")
            /\ UNCHANGED <<stock, carts, orders>>
       ELSE /\ orders' = Append(orders, o)
            /\ stock' = [p \in Products |-> stock[p] - req[r].dec[p]]
            /\ carts' = [carts EXCEPT ![u].items = NoItems]
            /\ resp' = Response("placeOrder", "ok")
    /\ req' = [req EXCEPT ![r] = Idle]
    /\ UNCHANGED <<price, discountPrice, pstatus, payments, sessions>>

\* The store aborts the transaction (timeout, deadlock): everything the
\* callback wrote is rolled back.
PlaceAbort(r) ==
    /\ req[r].pc \in {"read", "created", "stocked"}
    /\ req' = [req EXCEPT ![r] = Idle]
    /\ resp' = Response("placeOrder", "Retryable")
    /\ UNCHANGED <<stock, price, discountPrice, pstatus, carts, orders,
                   payments, sessions>>

(* ------------------- OrderService.cancelOrder ------------------------- *)
CancelCheck_AnyOwner(r, userId, orderId) ==
    /\ Free(r)
    /\ IF ~(orderId \in OrderIds)
       THEN /\ resp' = Response("cancelOrder", "NotFound")
            /\ req' = req
       ELSE IF orders[orderId].status # "pending"
       THEN /\ resp' = Response("cancelOrder", "InvalidState")
            /\ req' = req
       ELSE /\ req' = [req EXCEPT ![r] =
                [pc |-> "cancelTx", user |-> userId, orderId |-> orderId]]
            /\ resp' = resp
    /\ UNCHANGED <<stock, price, discountPrice, pstatus, carts, orders,
                   payments, sessions>>

\* findFirst({id, userId}) and the two checks, outside the transaction.
CancelCheck(r, userId, orderId) ==
    /\ Free(r)
    /\ IF ~(orderId \in OrderIds /\ orders[orderId].userId = userId)
       THEN /\ resp' = Response("cancelOrder", "NotFound")
            /\ req' = req
       ELSE IF orders[orderId].status # "pending"
       THEN /\ resp' = Response("cancelOrder", "InvalidState")
            /\ req' = req
       ELSE /\ req' = [req EXCEPT ![r] =
                [pc |-> "cancelTx", user |-> userId, orderId |-> orderId]]
            /\ resp' = resp
    /\ UNCHANGED <<stock, price, discountPrice, pstatus, carts, orders,
                   payments, sessions>>

CancelCommit_NoRestock(r) ==
    /\ req[r].pc = "cancelTx"
    /\ orders' = [orders EXCEPT ![req[r].orderId].status = "cancelled"]
    /\ req' = [req EXCEPT ![r] = Idle]
    /\ resp' = Response("cancelOrder", "ok")
    /\ UNCHANGED <<stock, price, discountPrice, pstatus, carts, payments,
                   sessions>>

CancelCommit_ZeroTotal(r) ==
    /\ req[r].pc = "cancelTx"
    /\ LET o == req[r].orderId
           its == orders[o].items IN
       /\ orders' = [orders EXCEPT ![o].status = "cancelled",
                                   ![o].grandTotal = 0]
       /\ stock' = [p \in Products |->
                       IF p \in DOMAIN its THEN stock[p] + its[p].quantity
                       ELSE stock[p]]
    /\ req' = [req EXCEPT ![r] = Idle]
    /\ resp' = Response("cancelOrder", "ok")
    /\ UNCHANGED <<price, discountPrice, pstatus, carts, payments, sessions>>

CancelCommit_OneLine(r) ==
    /\ req[r].pc = "cancelTx"
    /\ LET o == req[r].orderId
           its == orders[o].items
           first == CHOOSE p \in DOMAIN its : TRUE IN
       /\ orders' = [orders EXCEPT ![o].status = "cancelled"]
       /\ stock' = [stock EXCEPT ![first] = stock[first] + its[first].quantity]
    /\ req' = [req EXCEPT ![r] = Idle]
    /\ resp' = Response("cancelOrder", "ok")
    /\ UNCHANGED <<price, discountPrice, pstatus, carts, payments, sessions>>

\* The transaction: status := cancelled, then {increment: quantity} for
\* every OrderItem of the order.
CancelCommit(r) ==
    /\ req[r].pc = "cancelTx"
    /\ LET o == req[r].orderId
           its == orders[o].items IN
       /\ orders' = [orders EXCEPT ![o].status = "cancelled"]
       /\ stock' = [p \in Products |->
                       IF p \in DOMAIN its THEN stock[p] + its[p].quantity
                       ELSE stock[p]]
    /\ req' = [req EXCEPT ![r] = Idle]
    /\ resp' = Response("cancelOrder", "ok")
    /\ UNCHANGED <<price, discountPrice, pstatus, carts, payments, sessions>>

CancelAbort(r) ==
    /\ req[r].pc = "cancelTx"
    /\ req' = [req EXCEPT ![r] = Idle]
    /\ resp' = Response("cancelOrder", "Retryable")
    /\ UNCHANGED <<stock, price, discountPrice, pstatus, carts, orders,
                   payments, sessions>>

\* PATCH /api/orders/:id/status (admin): the next state of the fulfilment
\* chain, with no stock side effect.
NextStatus(s) ==
    CASE s = "pending" -> "confirmed"
      [] s = "confirmed" -> "processing"
      [] s = "processing" -> "shipped"
      [] s = "shipped" -> "delivered"
      [] OTHER -> s

UpdateOrderStatus(orderId) ==
    /\ orderId \in OrderIds
    /\ NextStatus(orders[orderId].status) # orders[orderId].status
    /\ orders' = [orders EXCEPT
                    ![orderId].status = NextStatus(orders[orderId].status)]
    /\ UNCHANGED <<stock, price, discountPrice, pstatus, carts, payments,
                   sessions, req, resp>>

(* --------------------------- PaymentService --------------------------- *)
\* A checkout session is created at Stripe with the order and the user in
\* its metadata; an order that is not paid can get any number of sessions.
CreateCheckoutSession(userId, orderId) ==
    /\ orderId \in OrderIds
    /\ orders[orderId].userId = userId
    /\ orders[orderId].paymentStatus # "paid"
    /\ Cardinality(sessions) < MaxSessions
    /\ sessions' = sessions \cup
          {[id |-> Cardinality(sessions) + 1, orderId |-> orderId,
            userId |-> userId]}
    /\ UNCHANGED <<stock, price, discountPrice, pstatus, carts, orders,
                   payments, req, resp>>

\* The order has a Payment row (Order.payment is a one-to-one relation).
HasPayment_Never(orderId) == FALSE

HasPayment(orderId) ==
    \E i \in DOMAIN payments : payments[i].orderId = orderId

\* checkout.session.completed for a session, delivered any number of
\* times: order update and payment create in one transaction; a second
\* Payment row for the order violates the one-to-one relation and rolls
\* the transaction back.
HandleWebhook(s) ==
    /\ s \in sessions
    /\ IF HasPayment(s.orderId)
       THEN /\ UNCHANGED <<orders, payments>>
            /\ resp' = Response("handleWebhook", "Conflict")
       ELSE /\ orders' = [orders EXCEPT ![s.orderId].paymentStatus = "paid",
                                        ![s.orderId].paymentMethod = "stripe"]
            /\ payments' = Append(payments,
                  [orderId |-> s.orderId, userId |-> s.userId,
                   transactionId |-> s.id])
            /\ resp' = Response("handleWebhook", "ok")
    /\ UNCHANGED <<stock, price, discountPrice, pstatus, carts, sessions, req>>

(* --------------------------- specifications --------------------------- *)
OrderData(as, ms, ds, cs) ==
    [addressId : as, paymentMethod : ms, deliveryOption : ds, couponCode : cs]

\* Requests of both users overlap freely; one product is on sale.
Next ==
    \/ \E u \in Users, q \in 1..MaxQty : AddToCart(u, None, "p1", q)
    \/ \E r \in Reqs, u \in Users,
          d \in OrderData({"a1"}, {"cod"}, {"normal"}, {None}) :
          PlaceRead(r, u, d)
    \/ \E r \in Reqs, n \in OrderNumbers : PlaceCreate(r, n)
    \/ \E r \in Reqs : PlaceStock(r)
    \/ \E r \in Reqs : PlaceCommit(r)
    \/ \E r \in Reqs : PlaceAbort(r)
    \/ \E r \in Reqs, u \in Users, o \in 1..MaxOrders : CancelCheck(r, u, o)
    \/ \E r \in Reqs : CancelCommit(r)
    \/ \E r \in Reqs : CancelAbort(r)

Spec == Init /\ [][Next]_vars

\* One request at a time: every placeOrder and cancelOrder call runs to its
\* response before the next call starts.  No admin edit.
SeqNext ==
    \/ \E u \in Users, q \in 1..MaxQty :
          Free("r1") /\ AddToCart(u, None, "p1", q)
    \/ \E u \in Users, d \in OrderData({"a1"}, {"cod"}, {"normal"}, {None}) :
          PlaceRead("r1", u, d)
    \/ PlaceCreate("r1", Len(orders) + 1)
    \/ PlaceStock("r1")
    \/ PlaceCommit("r1")
    \/ PlaceAbort("r1")
    \/ \E u \in Users, o \in 1..MaxOrders : CancelCheck("r1", u, o)
    \/ CancelCommit("r1")
    \/ CancelAbort("r1")

SeqSpec == Init /\ [][SeqNext]_vars

\* The first order of the shop: u1 fills a cart with both products while
\* the admin edits the stock, then places an order with any address id.
PlaceNext ==
    \/ \E p \in Products, q \in 1..MaxQty :
          Free("r1") /\ orders = <<>> /\ AddToCart("u1", None, p, q)
    \/ \E p \in Products, s \in 0..MaxStock :
          Free("r1") /\ orders = <<>> /\ UpdateStock(p, s)
    \/ \E d \in OrderData(AddressIds, {"cod"}, {"normal"}, {None}) :
          orders = <<>> /\ PlaceRead("r1", "u1", d)
    \/ \E n \in OrderNumbers : PlaceCreate("r1", n)
    \/ PlaceStock("r1")
    \/ PlaceCommit("r1")
    \/ PlaceAbort("r1")

PlaceSpec == Init /\ [][PlaceNext]_vars

\* The life of u1's orders: placed, moved along the fulfilment chain by the
\* admin, and cancel requests of both users for every order id.
LifeNext ==
    \/ \E q \in 1..MaxQty : Free("r1") /\ AddToCart("u1", None, "p1", q)
    \/ \E d \in OrderData({"a1"}, {"cod"}, {"normal"}, {None}) :
          PlaceRead("r1", "u1", d)
    \/ PlaceCreate("r1", Len(orders) + 1)
    \/ PlaceStock("r1")
    \/ PlaceCommit("r1")
    \/ \E o \in 1..MaxOrders : UpdateOrderStatus(o)
    \/ \E u \in Users, o \in 1..MaxOrders : CancelCheck("r1", u, o)
    \/ CancelCommit("r1")
    \/ CancelAbort("r1")

LifeSpec == Init /\ [][LifeNext]_vars

\* The first order of the shop under every price: the admin edits price and
\* discountPrice, u1 fills a cart and places an order with any delivery
\* option, coupon code and payment method.
PriceNext ==
    \/ \E p \in Products, q \in 1..MaxQty :
          Free("r1") /\ orders = <<>> /\ AddToCart("u1", None, p, q)
    \/ \E p \in Products, v \in 1..MaxPrice :
          Free("r1") /\ orders = <<>> /\ UpdateProduct(p, "price", v)
    \/ \E p \in Products, v \in {Null} \cup 0..(MaxPrice - 1) :
          Free("r1") /\ orders = <<>> /\ UpdateProduct(p, "discountPrice", v)
    \/ \E d \in OrderData({"a1"}, PaymentMethods, DeliveryOptions,
                          CouponCodes) :
          orders = <<>> /\ PlaceRead("r1", "u1", d)
    \/ \E n \in OrderNumbers : PlaceCreate("r1", n)
    \/ PlaceStock("r1")
    \/ PlaceCommit("r1")

PriceSpec == Init /\ [][PriceNext]_vars

\* The quantity of a request body: an integer of at least 1.
Quantities == 1..MaxQty

\* Every operation that the cart, the catalogue admin and the order service
\* offer, on one product, for one user and one guest cart.
FrameNext ==
    \/ \E q \in Quantities : Free("r1") /\ AddToCart("u1", None, "p1", q)
    \/ \E q \in Quantities : Free("r1") /\ AddToCart(None, "t1", "p1", q)
    \/ \E q \in Quantities : Free("r1") /\ UpdateQuantity("u1", None, "p1", q)
    \/ Free("r1") /\ RemoveFromCart("u1", None, "p1")
    \/ Free("r1") /\ ClearCart("u1", None)
    \/ Free("r1") /\ MergeGuestCart("u1", "t1")
    \/ \E s \in 0..MaxStock : Free("r1") /\ UpdateStock("p1", s)
    \/ \E s \in 0..MaxStock : Free("r1") /\ UpdateProduct("p1", "stock", s)
    \/ \E v \in {"active", "inactive"} :
          Free("r1") /\ UpdateProduct("p1", "status", v)
    \/ \E d \in OrderData({"a1"}, {"cod"}, {"normal"}, {None}) :
          orders = <<>> /\ PlaceRead("r1", "u1", d)
    \/ PlaceCreate("r1", Len(orders) + 1)
    \/ PlaceStock("r1")
    \/ PlaceCommit("r1")
    \/ \E o \in 1..MaxOrders : CancelCheck("r1", "u1", o)
    \/ CancelCommit("r1")

FrameSpec == Init /\ [][FrameNext]_vars

\* What happens around an order once it exists: price edits, cart
\* operations, cancellation, checkout sessions and payment webhooks.
HistoryNext ==
    \/ \E q \in 1..MaxQty : Free("r1") /\ AddToCart("u1", None, "p1", q)
    \/ Free("r1") /\ ClearCart("u1", None)
    \/ \E v \in 1..MaxPrice : Free("r1") /\ UpdateProduct("p1", "price", v)
    \/ \E v \in {Null} \cup 0..(MaxPrice - 1) :
          Free("r1") /\ UpdateProduct("p1", "discountPrice", v)
    \/ \E d \in OrderData({"a1"}, PaymentMethods, {"normal"}, {None}) :
          orders = <<>> /\ PlaceRead("r1", "u1", d)
    \/ PlaceCreate("r1", Len(orders) + 1)
    \/ PlaceStock("r1")
    \/ PlaceCommit("r1")
    \/ \E o \in 1..MaxOrders : CancelCheck("r1", "u1", o)
    \/ CancelCommit("r1")
    \/ \E o \in 1..MaxOrders : CreateCheckoutSession("u1", o)
    \/ \E x \in sessions : HandleWebhook(x)

HistorySpec == Init /\ [][HistoryNext]_vars

\* One order over two products, placed and cancelled, with the admin
\* changing stock at any point.
CancelNext ==
    \/ \E p \in Products, q \in 1..MaxQty :
          Free("r1") /\ orders = <<>> /\ AddToCart("u1", None, p, q)
    \/ \E p \in Products, s \in 0..MaxStock :
          Free("r1") /\ UpdateStock(p, s)
    \/ \E d \in OrderData({"a1"}, {"cod"}, {"normal"}, {None}) :
          orders = <<>> /\ PlaceRead("r1", "u1", d)
    \/ PlaceCreate("r1", Len(orders) + 1)
    \/ PlaceStock("r1")
    \/ PlaceCommit("r1")
    \/ \E o \in 1..MaxOrders : CancelCheck("r1", "u1", o)
    \/ CancelCommit("r1")
    \/ CancelAbort("r1")

CancelSpec == Init /\ [][CancelNext]_vars

\* The cart operations under every combination of the two identities, on
\* products whose stock and status the admin changes.
UserIds == {None, "u1"}
GuestIds == {None, "t1"}
ProductIds == Products \cup {NoProduct}

IdentityNext ==
    \/ \E u \in UserIds, g \in GuestIds : GetCart(u, g)
    \/ \E u \in UserIds, g \in GuestIds, p \in {"p1", NoProduct},
          q \in Quantities : AddToCart(u, g, p, q)
    \/ \E u \in UserIds, g \in GuestIds, p \in {"p1", NoProduct},
          q \in Quantities : UpdateQuantity(u, g, p, q)
    \/ \E u \in UserIds, g \in GuestIds, p \in {"p1", NoProduct} :
          RemoveFromCart(u, g, p)
    \/ \E u \in UserIds, g \in GuestIds : ClearCart(u, g)
    \/ \E s \in 0..MaxStock : UpdateStock("p1", s)
    \/ \E v \in {"active", "inactive"} : UpdateProduct("p1", "status", v)

IdentitySpec == Init /\ [][IdentityNext]_vars

\* The cart operations of a user and of a guest, each under its one
\* identity, over two products.
Identities == {<<"u1", None>>, <<None, "t1">>}

CartNext ==
    \/ \E i \in Identities, p \in ProductIds, q \in Quantities :
          AddToCart(i[1], i[2], p, q)
    \/ \E i \in Identities, p \in ProductIds, q \in Quantities :
          UpdateQuantity(i[1], i[2], p, q)
    \/ \E i \in Identities, p \in ProductIds : RemoveFromCart(i[1], i[2], p)
    \/ \E i \in Identities : ClearCart(i[1], i[2])
    \/ \E s \in 0..MaxStock : UpdateStock("p1", s)
    \/ \E v \in {"active", "inactive"} : UpdateProduct("p1", "status", v)

CartSpec == Init /\ [][CartNext]_vars

\* A guest fills a cart, the user has a line of their own, the admin
\* changes stock and status, and the guest cart is merged after login.
MergeNext ==
    \/ \E q \in Quantities : AddToCart("u1", None, "p1", q)
    \/ \E p \in Products, q \in Quantities : AddToCart(None, "t1", p, q)
    \/ \E p \in Products, s \in 0..MaxStock : UpdateStock(p, s)
    \/ \E p \in Products, v \in {"active", "inactive"} :
          UpdateProduct(p, "status", v)
    \/ MergeGuestCart("u1", "t1")

MergeSpec == Init /\ [][MergeNext]_vars

\* One order, its checkout sessions, the webhook deliveries for them and
\* its cancellation.
PaymentNext ==
    \/ \E q \in Quantities :
          Free("r1") /\ orders = <<>> /\ AddToCart("u1", None, "p1", q)
    \/ \E d \in OrderData({"a1"}, {"cod"}, {"normal"}, {None}) :
          PlaceRead("r1", "u1", d)
    \/ PlaceCreate("r1", Len(orders) + 1)
    \/ PlaceStock("r1")
    \/ PlaceCommit("r1")
    \/ \E o \in 1..MaxOrders : CreateCheckoutSession("u1", o)
    \/ \E x \in sessions : HandleWebhook(x)
    \/ \E o \in 1..MaxOrders : CancelCheck("r1", "u1", o)
    \/ CancelCommit("r1")

PaymentSpec == Init /\ [][PaymentNext]_vars

\* A merge that runs while the guest keeps using the guest cart.
MergeTxNext ==
    \/ \E q \in Quantities : AddToCart(None, "t1", "p1", q)
    \/ \E q \in Quantities : UpdateQuantity(None, "t1", "p1", q)
    \/ \E q \in Quantities : AddToCart("u1", None, "p1", q)
    \/ \E s \in 0..MaxStock : UpdateStock("p1", s)
    \/ MergeLoad("r1", "u1", "t1")
    \/ MergeCommit("r1")
    \/ MergeAbort("r1")

MergeTxSpec == Init /\ [][MergeTxNext]_vars

\* Two addToCart calls on one cart and one product, statement by statement.
AddNext ==
    \/ \E r \in Reqs, p \in Products, q \in Quantities :
          AddRead(r, "u1", None, p, q)
    \/ \E r \in Reqs : AddWrite(r)

AddSpec == Init /\ [][AddNext]_vars

\* Two users place orders at the same time and may draw the same order
\* number.
NumberNext ==
    \/ \E u \in Users, q \in Quantities : AddToCart(u, None, "p1", q)
    \/ \E d \in OrderData({"a1"}, {"cod"}, {"normal"}, {None}) :
          PlaceRead("r1", "u1", d)
    \/ \E d \in OrderData({"a1"}, {"cod"}, {"normal"}, {None}) :
          PlaceRead("r2", "u2", d)
    \/ \E r \in Reqs, n \in OrderNumbers : PlaceCreate(r, n)
    \/ \E r \in Reqs : PlaceStock(r)
    \/ \E r \in Reqs : PlaceCommit(r)

NumberSpec == Init /\ [][NumberNext]_vars

(* ------------------------------ claims -------------------------------- *)
InitialStock == MaxStock
QtyIn(o, p) ==
    IF p \in DOMAIN orders[o].items THEN orders[o].items[p].quantity ELSE 0
Cancelled == {o \in OrderIds : orders[o].status = "cancelled"}
QtyOver(S, p) == SumOver(S, [o \in S |-> QtyIn(o, p)])

\* C1: the stock of every product is at least 0 in every reachable state,
\* also when placeOrder transactions overlap with each other and with
\* cancelOrder.
C1_StockNeverNegative == \A p \in Products : stock[p] >= 0

C3_AsStated ==
    [][stock' # stock =>
          \/ /\ \E r \in Reqs : PlaceCommit(r)
             /\ \A p \in Products : stock'[p] <= stock[p]
          \/ /\ \E r \in Reqs : CancelCommit(r)
             /\ \A p \in Products : stock'[p] >= stock[p]]_vars

\* C3 amended: a product's stock is changed only by placeOrder
\* (decrement), cancelOrder (increment) and the admin's updateStock and
\* updateProduct (set to the given value); no cart operation changes it.
C3_StockWriters ==
    [][stock' # stock =>
          \/ /\ \E r \in Reqs : PlaceCommit(r)
             /\ \A p \in Products : stock'[p] <= stock[p]
          \/ /\ \E r \in Reqs : CancelCommit(r)
             /\ \A p \in Products : stock'[p] >= stock[p]
          \/ \E p \in Products, s \in 0..MaxStock : UpdateStock(p, s)
          \/ \E p \in Products, s \in 0..MaxStock :
                UpdateProduct(p, "stock", s)]_vars

C3_Witness ==
    /\ carts["u1"].items["p1"] > 0
    /\ ~carts["t1"].exists
    /\ Len(orders) > 0
    /\ Cancelled = {}
    /\ stock["p1"] = MaxStock

\* A step of a placeOrder call: its request record or the response changes.
PlaceOrderStep == req' # req \/ (resp' # resp /\ resp'.op = "placeOrder")
\* The successful commit of the placeOrder call in flight as r.
PlacedBy(r) ==
    /\ req[r].pc = "stocked"
    /\ req'[r].pc = "idle"
    /\ resp' = Response("placeOrder", "ok")

\* C4: whatever makes a placeOrder call fail (empty cart, insufficient
\* stock, unknown address, a failing later write), no step of the call has
\* changed a stock, an order or a cart: only the commit of a successful call
\* changes them.
C4_FailedPlaceOrderChangesNothing ==
    [][(PlaceOrderStep /\ ~(\E r \in Reqs : PlacedBy(r)))
          => UNCHANGED <<stock, orders, carts>>]_vars

C4_Witness ==
    /\ resp = Response("placeOrder", "InsufficientStock")
    /\ Lines(carts["u1"].items) = Products
    /\ stock["p1"] >= carts["u1"].items["p1"]
    /\ stock["p2"] < carts["u1"].items["p2"]
    /\ orders = <<>>

\* C5: the commit of a successful placeOrder appends an order of the user
\* with status pending and paymentStatus pending whose OrderItems are the
\* cart's lines with their quantities, lowers the stock of each ordered
\* product by the ordered quantity and of no other product, and leaves the
\* user's cart row in place with no line.
C5_SuccessfulPlaceOrder ==
    [][\A r \in Reqs :
          PlacedBy(r) =>
            LET u == req[r].user
                its == carts[u].items
                o == Len(orders) + 1 IN
            /\ Len(orders') = o
            /\ \A i \in OrderIds : orders'[i] = orders[i]
            /\ orders'[o].userId = u
            /\ orders'[o].status = "pending"
            /\ orders'[o].paymentStatus = "pending"
            /\ DOMAIN orders'[o].items = Lines(its)
            /\ \A p \in Lines(its) : orders'[o].items[p].quantity = its[p]
            /\ \A p \in Products :
                  stock'[p] = stock[p] - (IF p \in Lines(its) THEN its[p] ELSE 0)
            /\ carts'[u].exists
            /\ Lines(carts'[u].items) = {}]_vars

C5_Witness ==
    /\ resp = Response("placeOrder", "ok")
    /\ Len(orders) = 1
    /\ DOMAIN orders[1].items = Products
    /\ \E p \in Products : orders[1].items[p].quantity > 1
    /\ Lines(carts["u1"].items) = {}

\* C6: the totals a successful placeOrder stores are: subtotal = sum over
\* the cart lines of quantity x (discountPrice when it is not null, else
\* price); shipping fee 180 for express and 120 otherwise; discount 0 for
\* every coupon code; grandTotal = subtotal + shipping fee - discount.
C6_StoredTotals ==
    [][\A r \in Reqs :
          PlacedBy(r) =>
            LET its == carts[req[r].user].items
                ls == Lines(its)
                o == orders'[Len(orders) + 1]
                subtotal ==
                    SumOver(ls, [p \in ls |->
                        its[p] * Coalesce(discountPrice[p], price[p])])
                fee == IF req[r].data.deliveryOption = "express"
                       THEN 180 ELSE 120 IN
            /\ o.totalAmount = subtotal
            /\ o.shippingAmount = fee
            /\ o.discountAmount = 0
            /\ o.grandTotal = subtotal + fee - 0]_vars

\* C7: no order carries the address snapshot of another user's address
\* (placeOrder answers NotFound for an address the user does not own).
C7_AddressOfTheUser ==
    \A o \in OrderIds : orders[o].shippingAddress.userId = orders[o].userId

OrderFound(u, o) == o \in OrderIds /\ orders[o].userId = u

\* C10: cancelOrder(userId, orderId) answers NotFound when the order does
\* not exist or belongs to another user, and InvalidState when the order is
\* not pending; either way no order and no stock changes and no
\* transaction is started.
C10_CancelRejected ==
    [][\A r \in Reqs, u \in Users, o \in 1..MaxOrders :
          CancelCheck(r, u, o) =>
            /\ ~OrderFound(u, o) =>
                 /\ resp' = Response("cancelOrder", "NotFound")
                 /\ UNCHANGED <<orders, stock, req>>
            /\ (OrderFound(u, o) /\ orders[o].status # "pending") =>
                 /\ resp' = Response("cancelOrder", "InvalidState")
                 /\ UNCHANGED <<orders, stock, req>>]_vars

C10_Witness ==
    /\ resp = Response("cancelOrder", "InvalidState")
    /\ \E o \in OrderIds : orders[o].status = "shipped"
    /\ \E o \in OrderIds : orders[o].status = "cancelled"

\* C8: the quantity, price and discount of every OrderItem and the
\* subtotal, shipping fee, discount and grandTotal of every order keep the
\* values of the placement through every later step: price and
\* discountPrice edits, cart operations, cancelOrder, payment webhooks.
C8_SnapshotFrozen ==
    [][\A o \in OrderIds :
          /\ orders'[o].items = orders[o].items
          /\ orders'[o].totalAmount = orders[o].totalAmount
          /\ orders'[o].shippingAmount = orders[o].shippingAmount
          /\ orders'[o].discountAmount = orders[o].discountAmount
          /\ orders'[o].grandTotal = orders[o].grandTotal]_vars

C8_Witness ==
    /\ Len(orders) = 1
    /\ orders[1].status = "cancelled"
    /\ orders[1].paymentStatus = "paid"
    /\ orders[1].items["p1"].price # price["p1"]
    /\ orders[1].items["p1"].discount > 0
    /\ discountPrice["p1"] = Null
    /\ carts["u1"].items["p1"] > 0

\* C9 as stated: no step changes a field of an existing order other than
\* status and paymentStatus.
C9_AsStated ==
    [][\A o \in OrderIds :
          [orders'[o] EXCEPT !.status = orders[o].status,
                             !.paymentStatus = orders[o].paymentStatus]
             = orders[o]]_vars

\* C9 amended: no step changes a field of an existing order other than
\* status, paymentStatus and paymentMethod (the payment webhook sets
\* paymentMethod to stripe); order number, totals and address snapshots
\* are never rewritten.
C9_OnlyStatusAndPayment ==
    [][\A o \in OrderIds :
          [orders'[o] EXCEPT !.status = orders[o].status,
                             !.paymentStatus = orders[o].paymentStatus,
                             !.paymentMethod = orders[o].paymentMethod]
             = orders[o]]_vars

C9_Witness ==
    /\ Len(orders) = 1
    /\ orders[1].status = "cancelled"
    /\ orders[1].paymentStatus = "paid"
    /\ orders[1].paymentMethod = "stripe"
    /\ resp = Response("cancelOrder", "ok")

\* The step on which the cancelOrder call of slot r succeeds.
CancelledBy(r) ==
    /\ req[r].pc = "cancelTx"
    /\ req'[r].pc = "idle"
    /\ resp' = Response("cancelOrder", "ok")

\* C11: a successful cancelOrder sets the order's status to cancelled and
\* raises the stock of every OrderItem's product by the item's quantity; a
\* cancelOrder whose transaction does not commit changes neither; and the
\* commit of placeOrder lowers every product's stock by exactly the
\* quantity the new order holds of it, so that placing and then cancelling
\* returns every stock to its value before the placement.
C11_CancelRestocksEveryLine ==
    [][\A r \in Reqs :
          /\ CancelledBy(r) =>
                LET o == req[r].orderId IN
                /\ orders'[o].status = "cancelled"
                /\ \A p \in Products : stock'[p] = stock[p] + QtyIn(o, p)
          /\ (req[r].pc = "cancelTx" /\ ~CancelledBy(r)) =>
                UNCHANGED <<stock, orders>>
          /\ PlacedBy(r) =>
                LET its == orders'[Len(orders')].items IN
                \A p \in Products :
                   stock[p] = stock'[p]
                      + (IF p \in DOMAIN its THEN its[p].quantity ELSE 0)]_vars

C11_Witness ==
    /\ Len(orders) = 1
    /\ DOMAIN orders[1].items = Products
    /\ orders[1].status = "cancelled"
    /\ resp = Response("cancelOrder", "ok")
    /\ \A p \in Products : stock[p] = MaxStock
    /\ orders[1].items["p1"].quantity # orders[1].items["p2"].quantity

\* C12: over any number of cancelOrder calls for one order, concurrent
\* ones included, at most one succeeds and the order's quantities are added
\* back to stock once: every successful cancelOrder commits on an order
\* that no other call has cancelled.
C12_AtMostOneCancelSucceeds ==
    [][\A r \in Reqs :
          CancelledBy(r) => orders[req[r].orderId].status = "pending"]_vars

\* A step of some cart operation called with the identities u and g.
CartCall(u, g) ==
    \/ GetCart(u, g)
    \/ \E p \in ProductIds, q \in Quantities : AddToCart(u, g, p, q)
    \/ \E p \in ProductIds, q \in Quantities : UpdateQuantity(u, g, p, q)
    \/ \E p \in ProductIds : RemoveFromCart(u, g, p)
    \/ ClearCart(u, g)

\* C13 as stated: a cart operation called with neither identity, or with
\* both, fails with InvalidIdentity and creates or changes no cart.
C13_AsStated ==
    [][\A u \in UserIds, g \in GuestIds :
          ((u = None) <=> (g = None)) /\ CartCall(u, g) =>
             resp'.error = "InvalidIdentity" /\ carts' = carts]_vars

\* C13 amended: with neither identity getCart, updateQuantity,
\* removeFromCart and clearCart fail with InvalidIdentity, and so does
\* addToCart once its product check has passed (it fails with NotFound or
\* OutOfStock before that); no cart is created or changed.  With both
\* identities the operation works on the user's cart: it does not fail with
\* InvalidIdentity and the guest cart is neither created nor changed.
C13_IdentityResolution ==
    [][/\ CartCall(None, None) => carts' = carts
       /\ (\/ GetCart(None, None)
           \/ ClearCart(None, None)
           \/ \E p \in ProductIds : RemoveFromCart(None, None, p)
           \/ \E p \in ProductIds, q \in Quantities :
                 UpdateQuantity(None, None, p, q))
             => resp'.error = "InvalidIdentity"
       /\ \A p \in ProductIds, q \in Quantities :
             AddToCart(None, None, p, q) =>
                resp'.error =
                   IF ~(p \in Products) \/ pstatus[p] # "active"
                   THEN "NotFound"
                   ELSE IF stock[p] < 1 THEN "OutOfStock"
                   ELSE "InvalidIdentity"
       /\ \A u \in UserIds \ {None}, g \in GuestIds \ {None} :
             CartCall(u, g) =>
                /\ resp'.error # "InvalidIdentity"
                /\ carts'[g] = carts[g]
                /\ \A k \in CartKeys \ {u} : carts'[k] = carts[k]]_vars

C13_Witness ==
    /\ resp = Response("updateQuantity", "InvalidIdentity")
    /\ carts["u1"].items["p1"] = MaxQty
    /\ carts["t1"].exists
    /\ carts["t1"].items["p1"] = 1

\* C14: after every step of addToCart, updateQuantity, removeFromCart,
\* clearCart, mergeGuestCart and placeOrder every cart line has a quantity
\* of at least 1 (a cart holds at most one line per product: its lines are
\* keyed by product), and a successful addToCart for a product already in
\* the cart raises that line's quantity by the requested amount and adds
\* no line.
C14_CartLines ==
    [][/\ \A k \in CartKeys : \A p \in Lines(carts'[k].items) :
             carts'[k].items[p] >= 1
       /\ \A u \in UserIds, g \in GuestIds, p \in Products, q \in Quantities :
             LET k == ResolveKey(u, g) IN
             (k # None /\ HasLine(k, p) /\ AddToCart(u, g, p, q)
                /\ resp'.error = "ok") =>
                /\ carts'[k].items[p] = carts[k].items[p] + q
                /\ Lines(carts'[k].items) = Lines(carts[k].items)]_vars

C14_Witness ==
    /\ resp = Response("addToCart", "ok")
    /\ carts["u1"].items["p1"] = MaxQty
    /\ Len(orders) > 0
    /\ ~carts["t1"].exists
    /\ stock["p1"] = MaxQty

\* The cart lines, without the cart rows that resolveCart creates lazily.
AllLines == [k \in CartKeys |-> carts[k].items]

\* C15: addToCart fails with NotFound when the product is missing or not
\* active, with OutOfStock when its stock is below 1, with InsufficientStock
\* when the requested quantity (new line) or the line's quantity plus the
\* requested one (existing line) exceeds the stock, and succeeds otherwise;
\* on every failure no line is created and no line changes its quantity.
C15_AddToCartFailures ==
    [][\A i \in Identities, p \in ProductIds, q \in Quantities :
          LET k == ResolveKey(i[1], i[2])
              total == IF HasLine(k, p) THEN carts[k].items[p] + q ELSE q
              expected ==
                 IF ~(p \in Products) \/ pstatus[p] # "active" THEN "NotFound"
                 ELSE IF stock[p] < 1 THEN "OutOfStock"
                 ELSE IF total > stock[p] THEN "InsufficientStock"
                 ELSE "ok" IN
          (AddToCart(i[1], i[2], p, q)) =>
             /\ resp' = Response("addToCart", expected)
             /\ expected # "ok" => AllLines' = AllLines]_vars

C15_Witness ==
    /\ resp = Response("addToCart", "InsufficientStock")
    /\ carts["u1"].items["p1"] = 1
    /\ stock["p1"] = MaxStock
    /\ carts["u1"].items["p2"] = Null

\* C16: updateQuantity fails with NotFound when the resolved cart has no
\* line for the product and with InsufficientStock when the new quantity
\* exceeds the product's stock at the time of the call, changing no cart
\* line in both cases; otherwise it sets that line's quantity to exactly
\* the new quantity and changes no other line.
C16_UpdateQuantity ==
    [][\A i \in Identities, p \in ProductIds, q \in Quantities :
          LET k == ResolveKey(i[1], i[2]) IN
          (UpdateQuantity(i[1], i[2], p, q)) =>
             IF ~HasLine(k, p)
             THEN /\ resp' = Response("updateQuantity", "NotFound")
                  /\ AllLines' = AllLines
             ELSE IF q > stock[p]
             THEN /\ resp' = Response("updateQuantity", "InsufficientStock")
                  /\ carts' = carts
             ELSE /\ resp' = Response("updateQuantity", "ok")
                  /\ carts' = [carts EXCEPT ![k].items[p] = q]]_vars

C16_Witness ==
    /\ resp = Response("updateQuantity", "ok")
    /\ carts["t1"].items["p1"] = 1
    /\ carts["t1"].items["p2"] = MaxQty
    /\ carts["u1"].items["p1"] = MaxQty
    /\ stock["p1"] = 1

\* C17: removeFromCart for a product in the cart deletes exactly that line
\* and leaves every other line as it was; for a product with no line in the
\* cart, as on a second call, it fails with NotFound and changes no line.
C17_RemoveFromCart ==
    [][\A i \in Identities, p \in ProductIds :
          LET k == ResolveKey(i[1], i[2]) IN
          (RemoveFromCart(i[1], i[2], p)) =>
             IF HasLine(k, p)
             THEN /\ resp' = Response("removeFromCart", "ok")
                  /\ carts' = [carts EXCEPT ![k].items[p] = Null]
             ELSE /\ resp' = Response("removeFromCart", "NotFound")
                  /\ AllLines' = AllLines]_vars

C17_Witness ==
    /\ resp = Response("removeFromCart", "NotFound")
    /\ carts["u1"].exists
    /\ carts["u1"].items["p1"] = Null
    /\ carts["u1"].items["p2"] = MaxQty

\* A mergeGuestCart step of user u and token t that found guest lines.
Merged(u, t) ==
    /\ MergeGuestCart(u, t)
    /\ carts[t].exists
    /\ Lines(carts[t].items) # {}

\* C18: in mergeGuestCart, for a guest line of an active product with
\* stock >= 1 that the user's cart also has a line for, the user line's
\* quantity after the merge is min(max(user quantity, guest quantity),
\* stock), for every combination of the three values.
C18_MergeConflict ==
    [][Merged("u1", "t1") =>
          \A p \in Lines(carts["t1"].items) \cap Lines(carts["u1"].items) :
             (pstatus[p] = "active" /\ stock[p] >= 1) =>
                LET e == carts["u1"].items[p]
                    g == carts["t1"].items[p]
                    m == IF e > g THEN e ELSE g IN
                carts'["u1"].items[p] = IF m < stock[p] THEN m ELSE stock[p]]_vars

C18_Witness ==
    /\ resp = Response("mergeGuestCart", "ok")
    /\ ~carts["t1"].exists
    /\ carts["u1"].items["p1"] = 1
    /\ carts["u1"].items["p2"] = MaxQty
    /\ stock["p1"] = MaxStock

\* C19: in mergeGuestCart, a guest line of a product that is not active or
\* has stock below 1 changes nothing in the user's cart; a guest line of an
\* active product in stock with no user line creates a user line of
\* min(guest quantity, stock); user lines of products that are not in the
\* guest cart are unchanged.
C19_MergeLines ==
    [][Merged("u1", "t1") =>
          \A p \in Products :
             LET e == carts["u1"].items[p]
                 g == carts["t1"].items[p] IN
             /\ (g # Null /\ (pstatus[p] # "active" \/ stock[p] < 1)) =>
                   carts'["u1"].items[p] = e
             /\ (g # Null /\ pstatus[p] = "active" /\ stock[p] >= 1
                   /\ e = Null) =>
                   carts'["u1"].items[p] = IF g < stock[p] THEN g ELSE stock[p]
             /\ g = Null => carts'["u1"].items[p] = e]_vars

C19_Witness ==
    /\ resp = Response("mergeGuestCart", "ok")
    /\ ~carts["t1"].exists
    /\ carts["u1"].items["p1"] = Null
    /\ pstatus["p1"] = "inactive"
    /\ carts["u1"].items["p2"] = 1
    /\ stock["p2"] = 1

\* C20: once the guest cart of a token has been merged and deleted, the
\* token never resolves to a cart again, whatever is called with it.  In
\* MergeSpec the user never adds product p2 and no line of the user's cart
\* is removed, so a p2 line in the user's cart tells that a merge has
\* processed the guest cart of t1: from then on no cart exists for t1.
C20_TokenRetired ==
    carts["u1"].items["p2"] # Null => ~carts["t1"].exists

\* The Payment rows of an order.
PaymentsOf(o) == {i \in DOMAIN payments : payments[i].orderId = o}

C29_NeverCancelledAndPaid ==
    \A o \in OrderIds :
       ~(orders[o].status = "cancelled" /\ orders[o].paymentStatus = "paid")

\* C21: mergeGuestCart for a token with no guest cart, or with a guest
\* cart of zero lines, is a no-op: the lines of the user's cart are
\* unchanged and an existing empty guest cart is neither deleted nor
\* changed.
C21_NothingToMerge ==
    [][(/\ MergeGuestCart("u1", "t1")
        /\ (~carts["t1"].exists \/ Lines(carts["t1"].items) = {})) =>
          /\ carts'["u1"].items = carts["u1"].items
          /\ carts'["t1"] = carts["t1"]
          /\ resp' = Response("mergeGuestCart", "ok")]_vars

C21_Witness ==
    /\ resp = Response("mergeGuestCart", "ok")
    /\ carts["t1"].exists
    /\ Lines(carts["t1"].items) = {}
    /\ carts["u1"].items["p1"] = 1
    /\ carts["u1"].items["p2"] = Null

\* C22: a mergeGuestCart that fails after the merge has started retains
\* nothing: the user's cart, the existence of its row included, and the
\* guest cart with its lines are as before.
C22_MergeAllOrNothing ==
    [][\A r \in Reqs :
          (req[r].pc = "mergeTx" /\ req'[r].pc = "idle"
             /\ resp'.error # "ok") => carts' = carts]_vars

\* C23: every guest line, with its quantity, that exists when the merge
\* deletes the guest cart is one the merge loaded and so merged or skipped.
C23_MergeSeesEveryGuestLine ==
    [][\A r \in Reqs :
          (req[r].pc = "mergeTx" /\ req'[r].pc = "idle"
             /\ resp' = Response("mergeGuestCart", "ok")) =>
             carts[req[r].token].items = req[r].guestItems]_vars

\* C30: every addToCart that succeeds leaves the line at the quantity it
\* had just before the write plus the requested quantity, so that two
\* successful calls add up, and at no more than the product's stock.
C30_NoLostUpdate ==
    [][\A r \in Reqs :
          (req[r].pc = "addWrite" /\ req'[r].pc = "idle"
             /\ resp' = Response("addToCart", "ok")) =>
             LET k == req[r].key
                 p == req[r].product
                 before == IF HasLine(k, p) THEN carts[k].items[p] ELSE 0 IN
             /\ carts'[k].items[p] = before + req[r].quantity
             /\ carts'[k].items[p] <= stock[p]]_vars

\* C24: no two orders ever have the same order number, also when two
\* placeOrder calls draw the same number; the call that does not commit
\* for that reason leaves stock, carts and orders unchanged.
C24_UniqueOrderNumbers ==
    [][/\ \A i, j \in DOMAIN orders' :
             orders'[i].orderNumber = orders'[j].orderNumber => i = j
       /\ \A r \in Reqs :
             (req[r].pc # "idle" /\ req'[r].pc = "idle"
                /\ resp' = Response("placeOrder", "Conflict")) =>
                UNCHANGED <<stock, carts, orders>>]_vars

C24_Witness ==
    /\ resp = Response("placeOrder", "Conflict")
    /\ Len(orders) = 1
    /\ orders[1].userId = "u1"
    /\ carts["u2"].items["p1"] = 1
    /\ carts["u1"].items["p1"] = Null
    /\ stock["p1"] = MaxStock - orders[1].items["p1"].quantity

\* C26: after any placeOrder and cancelOrder calls, with no admin stock
\* edit, every product's stock is its initial stock minus the quantities of
\* that product in the orders that are not cancelled.
C26_StockOfLiveOrders ==
    \A p \in Products :
       stock[p] = InitialStock - QtyOver(OrderIds \ Cancelled, p)

\* C27: the contents of a cart become at most one order: a placeOrder that
\* commits finds the lines it read still in the cart, no other placeOrder
\* having turned them into an order in between.
C27_OneOrderPerCart ==
    [][\A r \in Reqs :
          PlacedBy(r) => Lines(carts[req[r].user].items) # {}]_vars

\* C28: the cart lines a successful placeOrder deletes are lines it copied
\* into the order, with the same quantities.
C28_DeletesWhatItOrdered ==
    [][\A r \in Reqs :
          PlacedBy(r) =>
             \A p \in Lines(carts[req[r].user].items) :
                /\ p \in DOMAIN req[r].order.items
                /\ req[r].order.items[p].quantity
                      = carts[req[r].user].items[p]]_vars

=============================================================================
